---- MODULE Spec2Model ----
(***************************************************************************)
(* Model of the classification engine of sns-signal-analysis               *)
(* (src/signal_classifier.py, class SignalClassifier).                     *)
(*                                                                         *)
(* Samples are real amplitudes; the model draws them from a small set of   *)
(* integers and computes every quantity in exact rational arithmetic.      *)
(* A number is a record [n, d]: n/d in lowest terms with d > 0; d = 0      *)
(* encodes the IEEE values the numpy operations produce instead of         *)
(* raising: 0/0 is nan, 1/0 is +inf, -1/0 is -inf.                         *)
(* numpy arrays are sequences; numpy index i is sequence index i + 1.      *)
(*                                                                         *)
(* Spec runs the operations of one object on every short signal, on sine   *)
(* waves and on a few loud signals; SpecRepeat adds a caller that keeps    *)
(* the first summary; SpecPlot takes signals about as long as the          *)
(* spectrogram window; SpecBatch is the batch run of analyze_dataset.py.   *)
(***************************************************************************)
EXTENDS Integers, Sequences, FiniteSets, TLC

VARIABLES state, signal, fs, name, duration, time, made, ret, kept, batch

vars == <<state, signal, fs, name, duration, time, made, ret, kept, batch>>

\* the attributes of one SignalClassifier object
fields == <<signal, fs, name, duration, time>>

\* ------------------------------------------------------------------ bounds
MaxLen == 6

\* sample amplitudes and sampling rates offered to the constructor
SampleValues == {-1, 0, 1}
SamplingRates == {-1, 0, 1, 2, 1000000}
\* signal_name: the constructor's default
Names == {"Signal"}
\* save_path of plot_analysis: None, or a file to write
SavePaths == {"", "analysis.png"}
\* values passed for check_periodicity's threshold parameter (3/10 default)
Thresholds == {<<0, 1>>, <<3, 10>>, <<1, 2>>}

RECURSIVE SeqsUpTo(_)
SeqsUpTo(k) ==
    IF k = 0 THEN {<<>>}
    ELSE LET shorter == SeqsUpTo(k - 1)
         IN  shorter \cup {Append(s, v) : s \in {t \in shorter : Len(t) = k - 1},
                                          v \in SampleValues}

SampleSeqs == SeqsUpTo(MaxLen)

\* One period of each sine wave whose samples are rational up to a common
\* amplitude: A*sin(2*pi*n/P + phase) for P = 2, 3, 4 and 6.  The amplitude
\* is free (2/sqrt(3) makes the samples of P = 3 and P = 6 integers)
SineShapes ==
    {<<1, -1>>, <<0, 1, -1>>, <<0, 1, 0, -1>>, <<1, 1, -1, -1>>,
     <<0, 1, 1, 0, -1, -1>>, <<1, 2, 1, -1, -2, -1>>}

\* n samples of the wave, starting phase samples into the period
Sine(shape, phase, n) ==
    [i \in 1..n |-> shape[((i - 1 + phase) % Len(shape)) + 1]]

\* the longest sine offered, in periods
MaxPeriods == 3

\* np.sin(2 * np.pi * f * t) at fs = 8000, two periods or more of it
SineInputs ==
    UNION {{<<Sine(shape, phase, n), 8000>> :
                phase \in 0..(Len(shape) - 1),
                n \in (2 * Len(shape))..(MaxPeriods * Len(shape))} :
           shape \in SineShapes}

\* signals with samples outside [-1, 1] (the constructor takes any data; a
\* float or 8-bit WAV file is loaded unscaled), with rates that keep
\* energy * rate within 32 bits
LoudInputs ==
    {<<<<708>>, 2>>, <<<<1000, -1000>>, 1>>, <<<<1000, -1000>>, 2>>,
     <<<<2, -2>>, 1000000>>}

\* ------------------------------------------------- float-like arithmetic
Abs(x) == IF x < 0 THEN -x ELSE x
Sgn(x) == IF x < 0 THEN -1 ELSE IF x = 0 THEN 0 ELSE 1

RECURSIVE GCD(_, _)
GCD(a, b) == IF b = 0 THEN a ELSE GCD(b, a % b)

\* n / d as numpy evaluates it on floats: a zero divisor gives nan or +-inf
Rat(n, d) ==
    IF d = 0 THEN [n |-> Sgn(n), d |-> 0]
    ELSE LET g == GCD(Abs(n), Abs(d))
             s == IF d < 0 THEN -1 ELSE 1
         IN  [n |-> (s * n) \div g, d |-> (s * d) \div g]

Num(k) == [n |-> k, d |-> 1]
NaN == [n |-> 0, d |-> 0]
IsNaN(a) == a.d = 0 /\ a.n = 0
IsFinite(a) == a.d # 0

RatMul(a, b) ==
    IF IsNaN(a) \/ IsNaN(b) THEN NaN
    ELSE Rat(a.n * b.n, a.d * b.d)

RatDiv(a, b) ==
    IF IsNaN(a) \/ IsNaN(b) THEN NaN
    ELSE IF b.d = 0 THEN (IF a.d = 0 THEN NaN ELSE Num(0))
    ELSE IF a.d = 0 THEN Rat(a.n * (IF b.n < 0 THEN -1 ELSE 1), 0)
    ELSE Rat(a.n * b.d, a.d * b.n)

RatAdd(a, b) ==
    IF IsNaN(a) \/ IsNaN(b) THEN NaN
    ELSE IF a.d = 0 /\ b.d = 0 THEN (IF a.n = b.n THEN a ELSE NaN)
    ELSE IF a.d = 0 THEN a
    ELSE IF b.d = 0 THEN b
    ELSE Rat(a.n * b.d + b.n * a.d, a.d * b.d)

RatSub(a, b) == RatAdd(a, [n |-> -b.n, d |-> b.d])

\* comparisons are false whenever an operand is nan
RatLT(a, b) ==
    /\ ~IsNaN(a)
    /\ ~IsNaN(b)
    /\ IF a.d = 0 /\ b.d = 0 THEN a.n < b.n
       ELSE IF a.d = 0 THEN a.n < 0
       ELSE IF b.d = 0 THEN b.n > 0
       ELSE a.n * b.d < b.n * a.d

RatEQ(a, b) == ~IsNaN(a) /\ ~IsNaN(b) /\ a = b
RatLE(a, b) == RatLT(a, b) \/ RatEQ(a, b)
RatGT(a, b) == RatLT(b, a)
RatGE(a, b) == RatLE(b, a)

\* Python's None / a present float
None == [present |-> FALSE, n |-> 0, d |-> 0]
Some(a) == [present |-> TRUE, n |-> a.n, d |-> a.d]
Val(o) == [n |-> o.n, d |-> o.d]
\* truth value of "period" in "if period": None and 0.0 are false
Truthy(o) == o.present /\ ~(o.n = 0 /\ o.d # 0)

\* ------------------------------------------------------- energy and power
RECURSIVE SumAbsSq(_)
SumAbsSq(x) == IF x = <<>> THEN 0 ELSE Abs(Head(x)) * Abs(Head(x)) + SumAbsSq(Tail(x))

\* np.sum(np.abs(self.signal)**2)
calculate_energy(x) == Num(SumAbsSq(x))

\* mutant: the mean taken over len - 1 samples
calculate_power_ddof(x) == Rat(SumAbsSq(x), Len(x) - 1)

\* np.mean(np.abs(self.signal)**2); the mean of an empty array is nan
calculate_power(x) == Rat(SumAbsSq(x), Len(x))

\* ---------------------------------------------------- periodicity detector
\* A standardized array is kept as integers v with one common factor:
\* element i is v[i] * sqrt(sq).  Sums of products of two elements are then
\* (integer sum) * sq, which is what the element-wise arithmetic yields.
RECURSIVE SumSeq(_)
SumSeq(x) == IF x = <<>> THEN 0 ELSE Head(x) + SumSeq(Tail(x))

RECURSIVE Scaled(_, _, _)
Scaled(x, k, s) ==
    IF x = <<>> THEN <<>> ELSE <<k * Head(x) - s>> \o Scaled(Tail(x), k, s)

\* self.signal - np.mean(self.signal), times len(self.signal)
Deviations(x) == Scaled(x, Len(x), SumSeq(x))

\* np.std(self.signal) squared: the mean of the squared deviations from the
\* mean; it is nan for an empty array
Variance(x) == Rat(SumAbsSq(Deviations(x)), Len(x) * Len(x) * Len(x))

\* (self.signal - np.mean(self.signal)) / np.std(self.signal); a zero
\* standard deviation gives the factor 1/0 and so 0 * inf = nan elements
NormalizedSignal(x) ==
    [v |-> Deviations(x),
     sq |-> RatDiv(Rat(1, Len(x) * Len(x)), Variance(x))]

\* sum over i of v[i + k] * v[i], for the i where both indices exist
RECURSIVE LagProduct(_, _, _)
LagProduct(v, k, i) ==
    IF i > Len(v) THEN 0
    ELSE IF i + k >= 1 /\ i + k <= Len(v)
         THEN v[i + k] * v[i] + LagProduct(v, k, i + 1)
         ELSE LagProduct(v, k, i + 1)

RECURSIVE CorrelateFrom(_, _)
CorrelateFrom(y, j) ==
    IF j > 2 * Len(y.v) - 1 THEN <<>>
    ELSE <<RatMul(Num(LagProduct(y.v, (j - 1) - (Len(y.v) - 1), 1)), y.sq)>>
         \o CorrelateFrom(y, j + 1)

\* np.correlate(y, y, mode='full'): 2N-1 values, numpy index j is lag j-(N-1)
CorrelateFull(y) == CorrelateFrom(y, 1)

\* autocorr[len(autocorr)//2:]
HalfAutocorr(full) == SubSeq(full, (Len(full) \div 2) + 1, Len(full))

RECURSIVE DivideAll(_, _)
DivideAll(x, by) ==
    IF x = <<>> THEN <<>> ELSE <<RatDiv(Head(x), by)>> \o DivideAll(Tail(x), by)

\* mutant: the half autocorrelation left unnormalized
NormalizeAutocorr_none(half) == half

\* autocorr / autocorr[0]
NormalizeAutocorr(half) == DivideAll(half, half[1])

\* element at numpy index i
At(x, i) == x[i + 1]

RECURSIVE PlateauEnd(_, _, _)
PlateauEnd(x, i, i_ahead) ==
    IF i_ahead < Len(x) - 1 /\ RatEQ(At(x, i_ahead), At(x, i))
    THEN PlateauEnd(x, i, i_ahead + 1)
    ELSE i_ahead

\* mutant: a last sample above the one before it counts as a maximum
RECURSIVE LocalMaxima_with_last(_, _, _)
LocalMaxima_with_last(x, i, acc) ==
    IF ~(i < Len(x) - 1)
    THEN IF i = Len(x) - 1 /\ RatLT(At(x, i - 1), At(x, i))
         THEN Append(acc, i)
         ELSE acc
    ELSE IF RatLT(At(x, i - 1), At(x, i))
         THEN LET i_ahead == PlateauEnd(x, i, i + 1)
              IN  IF RatLT(At(x, i_ahead), At(x, i))
                  THEN LocalMaxima_with_last(x, i_ahead + 1,
                                   Append(acc, (i + i_ahead - 1) \div 2))
                  ELSE LocalMaxima_with_last(x, i + 1, acc)
         ELSE LocalMaxima_with_last(x, i + 1, acc)

\* scipy's local-maxima scan behind find_peaks: the first and the last
\* sample are never maxima, a flat maximum is reported at its middle
RECURSIVE LocalMaxima(_, _, _)
LocalMaxima(x, i, acc) ==
    IF ~(i < Len(x) - 1) THEN acc
    ELSE IF RatLT(At(x, i - 1), At(x, i))
         THEN LET i_ahead == PlateauEnd(x, i, i + 1)
              IN  IF RatLT(At(x, i_ahead), At(x, i))
                  THEN LocalMaxima(x, i_ahead + 1,
                                   Append(acc, (i + i_ahead - 1) \div 2))
                  ELSE LocalMaxima(x, i + 1, acc)
         ELSE LocalMaxima(x, i + 1, acc)

\* mutant: the height must strictly exceed the threshold
HeightOk_strict(x, p, thr) == RatLT(thr, At(x, p))

\* the height condition of find_peaks keeps a peak when height <= x[peak]
HeightOk(x, p, thr) == RatLE(thr, At(x, p))

\* sp_signal.find_peaks(x, height=thr): indices into x, ascending
find_peaks(x, thr) ==
    SelectSeq(LocalMaxima(x, 1, <<>>), LAMBDA p : HeightOk(x, p, thr))

\* mutant: the last qualifying peak taken instead of the first
PeriodSamples_last(peaks) == peaks[Len(peaks)] + 1

\* mutant: the index into autocorr[1:] taken as the lag
PeriodSamples_no_offset(peaks) == peaks[1]

\* period_samples = peaks[0] + 1
PeriodSamples(peaks) == peaks[1] + 1

NoAutocorr == [full |-> <<>>, half |-> <<>>, autocorr |-> <<>>, peaks |-> <<>>]

\* mutant: the division by a zero standard deviation raises
check_periodicity_exc_zerodiv(x) ==
    IF Len(x) = 0 THEN "ValueError"
    ELSE IF Variance(x) = Num(0) THEN "ZeroDivisionError"
    ELSE "none"

\* what check_periodicity raises: np.correlate rejects an empty array with
\* ValueError; a zero standard deviation only yields nan (numpy warns)
check_periodicity_exc(x) == IF Len(x) = 0 THEN "ValueError" ELSE "none"

\* SignalClassifier.check_periodicity
check_periodicity(x, rate, thr) ==
    IF check_periodicity_exc(x) # "none"
    THEN [exc |-> check_periodicity_exc(x), threshold |-> thr,
          is_periodic |-> FALSE, period |-> None, locals |-> NoAutocorr]
    ELSE LET full == CorrelateFull(NormalizedSignal(x))
             half == HalfAutocorr(full)
             autocorr == NormalizeAutocorr(half)
             peaks == find_peaks(Tail(autocorr), thr)
             locals == [full |-> full, half |-> half, autocorr |-> autocorr,
                        peaks |-> peaks]
         IN  IF Len(peaks) > 0
             THEN [exc |-> "none", threshold |-> thr, is_periodic |-> TRUE,
                   period |-> Some(Rat(PeriodSamples(peaks), rate)),
                   locals |-> locals]
             ELSE [exc |-> "none", threshold |-> thr, is_periodic |-> FALSE,
                   period |-> None, locals |-> locals]

DefaultThreshold == Rat(3, 10)

\* ---------------------------------------------------- energy/power label
EnergyThreshold == 1000000

\* mutant: the total energy compared with the threshold, not energy / duration
classify_energy_power_total(x, dur) ==
    LET energy == calculate_energy(x)
        power == calculate_power(x)
    IN  IF RatGT(power, Num(0)) /\ IsFinite(power)
        THEN IF RatLT(energy, Num(EnergyThreshold))
             THEN "Energy Signal"
             ELSE "Power Signal"
        ELSE "Energy Signal"

\* mutant: normalized_energy equal to the threshold still an energy signal
classify_energy_power_le(x, dur) ==
    LET energy == calculate_energy(x)
        power == calculate_power(x)
        normalized_energy == RatDiv(energy, dur)
    IN  IF RatGT(power, Num(0)) /\ IsFinite(power)
        THEN IF RatLE(normalized_energy, Num(EnergyThreshold))
             THEN "Energy Signal"
             ELSE "Power Signal"
        ELSE "Energy Signal"

\* SignalClassifier.classify_energy_power
classify_energy_power(x, dur) ==
    LET energy == calculate_energy(x)
        power == calculate_power(x)
        normalized_energy == RatDiv(energy, dur)
    IN  IF RatGT(power, Num(0)) /\ IsFinite(power)
        THEN IF RatLT(normalized_energy, Num(EnergyThreshold))
             THEN "Energy Signal"
             ELSE "Power Signal"
        ELSE "Energy Signal"

\* 1/period if period else None
Frequency(period) ==
    IF Truthy(period) THEN Some(RatDiv(Num(1), Val(period))) ELSE None

\* ------------------------------------------------------ spectral utilities
\* numpy index j of fftfreq(n, d)'s integer grid: 0..(n-1)//2, then -(n//2)..-1
BinNumber(j, n) == IF j < ((n - 1) \div 2) + 1 THEN j ELSE j - n

\* fftfreq(N, 1/self.fs): the integer grid times val = 1 / (N * d)
fftfreq(n, rate) ==
    LET d == RatDiv(Num(1), Num(rate))
        val == RatDiv(Num(1), RatMul(Num(n), d))
    IN  [j \in 1..n |-> RatMul(Num(BinNumber(j - 1, n)), val)]

\* np.abs(fft(self.signal)): element j is the magnitude of DFT bin j.  The
\* complex value of a bin is not a rational number; an element is kept as the
\* bin it is the magnitude of
fft_magnitude(x) == [j \in 1..Len(x) |-> [bin |-> j - 1]]

\* mutant: only the strictly positive frequencies kept
positive_freq_strict(f) == RatGT(f, Num(0))

\* frequencies >= 0
positive_freq(f) == RatGE(f, Num(0))

\* x[mask]: the elements of x at the indices where mask holds, in order
MaskSelect(x, mask) ==
    LET idx == SelectSeq([j \in 1..Len(x) |-> j], LAMBDA j : mask[j])
    IN  [i \in 1..Len(idx) |-> x[idx[i]]]

\* SignalClassifier.compute_fft; fft rejects an empty array with ValueError
compute_fft(x, rate) ==
    IF Len(x) = 0
    THEN [exc |-> "ValueError"]
    ELSE LET frequencies == fftfreq(Len(x), rate)
             magnitude == fft_magnitude(x)
             positive_freq_idx == [j \in 1..Len(x) |-> positive_freq(frequencies[j])]
         IN  [exc |-> "none",
              frequencies |-> MaskSelect(frequencies, positive_freq_idx),
              magnitude |-> MaskSelect(magnitude, positive_freq_idx)]

\* len(self.signal) > 256 decides whether the spectrogram is computed
MinSpectrogramLen == 256
\* nperseg=256 passed to sp_signal.spectrogram
nperseg == 256
\* the segment length sp_signal.welch uses when none is passed
WelchSegment == 256

Min(a, b) == IF a < b THEN a ELSE b

\* mutant: a signal shorter than one segment gets no power spectral density
welch_full_segment(n) ==
    IF n < WelchSegment
    THEN [computed |-> FALSE, nperseg |-> 0, bins |-> 0]
    ELSE [computed |-> TRUE, nperseg |-> WelchSegment,
          bins |-> (WelchSegment \div 2) + 1]

\* sp_signal.welch(self.signal, self.fs) on n >= 1 samples: a signal shorter
\* than the segment length is taken as one segment of its own length
welch(n) ==
    [computed |-> TRUE, nperseg |-> Min(WelchSegment, n),
     bins |-> (Min(WelchSegment, n) \div 2) + 1]

TooShortText == "Signal too short\nfor spectrogram"

\* mutant: a signal of exactly the window length gets a spectrogram
spectrogram_panel_ge(n) ==
    IF n >= MinSpectrogramLen
    THEN [computed |-> TRUE, text |-> "",
          segments |-> (n - nperseg \div 8) \div (nperseg - nperseg \div 8)]
    ELSE [computed |-> FALSE, text |-> TooShortText, segments |-> 0]

\* panel 6 of plot_analysis: the spectrogram over windows of nperseg samples
\* that overlap by nperseg // 8, or the text drawn in its place
spectrogram_panel(n) ==
    IF n > MinSpectrogramLen
    THEN [computed |-> TRUE, text |-> "",
          segments |-> (n - nperseg \div 8) \div (nperseg - nperseg \div 8)]
    ELSE [computed |-> FALSE, text |-> TooShortText, segments |-> 0]

\* save_path: nothing saved when it is None or empty
NoPath == ""

\* SignalClassifier.plot_analysis, by what each panel is drawn from.  Panel 2
\* calls compute_fft first, whose ValueError on an empty signal ends the
\* call; the text of panel 5 repeats the classification and is not recorded
plot_analysis(x, rate, nm, save_path) ==
    LET spectrum == compute_fft(x, rate)
    IN  IF spectrum.exc # "none"
        THEN [exc |-> spectrum.exc]
        ELSE [exc |-> "none",
              title |-> nm,
              spectrum |-> [computed |-> TRUE, bins |-> Len(spectrum.frequencies)],
              psd |-> welch(Len(x)),
              spectrogram |-> spectrogram_panel(Len(x)),
              saved |-> save_path]

\* ------------------------------------------------------------ observation
\* ret is the outcome of the call in progress as its caller sees it: the
\* method called, the exception it raised ("none" when it returned) and the
\* returned values; NoRet when no call is pending.  The caller is sequential:
\* it takes the outcome of one call (Consume) before it makes the next.
NoRet == [call |-> "none", exc |-> "none"]

\* the attributes as the constructor left them, kept for reference
NotMade == [signal |-> <<>>, fs |-> 0, name |-> "", duration |-> Num(0),
            time |-> <<>>]

\* no batch run is in progress
NoBatch == [pc |-> "none"]

\* mutant: the stop value left out of the grid (endpoint=False)
linspace_open(stop, num) ==
    [i \in 1..num |-> RatMul(Num(i - 1), RatDiv(stop, Num(num)))]

\* np.linspace(0, stop, num): num points with step stop / (num - 1), the last
\* one set to stop itself; a single point is the start value 0
linspace(stop, num) ==
    [i \in 1..num |->
        IF num = 1 THEN Num(0)
        ELSE IF i = num THEN stop
        ELSE RatMul(Num(i - 1), RatDiv(stop, Num(num - 1)))]

Init ==
    /\ state = "none"
    /\ signal = <<>>
    /\ fs = 1
    /\ name = ""
    /\ duration = Num(0)
    /\ time = <<>>
    /\ made = NotMade
    /\ ret = NoRet
    /\ kept = NoRet
    /\ batch = NoBatch

\* SignalClassifier.__init__: the fields are assigned in order, and the
\* division len(signal) / fs raises ZeroDivisionError when fs is 0
Construct(s, r, nm) ==
    /\ state = "none"
    /\ signal' = s
    /\ fs' = r
    /\ name' = nm
    /\ IF r = 0
       THEN /\ state' = "failed"
            /\ duration' = duration
            /\ time' = time
            /\ made' = made
            /\ ret' = [call |-> "__init__", exc |-> "ZeroDivisionError"]
       ELSE /\ state' = "live"
            /\ duration' = Rat(Len(s), r)
            /\ time' = linspace(duration', Len(s))
            /\ made' = [signal |-> signal', fs |-> fs', name |-> name',
                         duration |-> duration', time |-> time']
            /\ ret' = [call |-> "__init__", exc |-> "none"]
    /\ UNCHANGED <<kept, batch>>

\* the caller takes the returned value, or handles the exception
Consume ==
    /\ ret # NoRet
    /\ ret' = NoRet
    /\ UNCHANGED <<state, fields, made, kept, batch>>

\* summary = classifier.get_classification_summary(): the caller keeps the
\* first summary it is returned
KeepSummary ==
    /\ ret.call = "get_classification_summary"
    /\ kept = NoRet
    /\ kept' = ret
    /\ ret' = NoRet
    /\ UNCHANGED <<state, fields, made, batch>>

Callable == state = "live" /\ ret = NoRet

\* mutant: the squared magnitudes written back into self.signal
CalculateEnergy_inplace ==
    /\ Callable
    /\ ret' = [call |-> "calculate_energy", exc |-> "none",
               energy |-> calculate_energy(signal)]
    /\ signal' = [i \in 1..Len(signal) |-> signal[i] * signal[i]]
    /\ UNCHANGED <<state, fs, name, duration, time, made, kept, batch>>

CalculateEnergy ==
    /\ Callable
    /\ ret' = [call |-> "calculate_energy", exc |-> "none",
               energy |-> calculate_energy(signal)]
    /\ UNCHANGED <<state, fields, made, kept, batch>>

CalculatePower ==
    /\ Callable
    /\ ret' = [call |-> "calculate_power", exc |-> "none",
               power |-> calculate_power(signal)]
    /\ UNCHANGED <<state, fields, made, kept, batch>>

\* mutant: the mean removed from self.signal itself
CheckPeriodicity_inplace(thr) ==
    /\ Callable
    /\ ret' = [call |-> "check_periodicity"]
              @@ check_periodicity(signal, fs, Rat(thr[1], thr[2]))
    /\ signal' = Deviations(signal)
    /\ UNCHANGED <<state, fs, name, duration, time, made, kept, batch>>

CheckPeriodicity(thr) ==
    /\ Callable
    /\ ret' = [call |-> "check_periodicity"]
              @@ check_periodicity(signal, fs, Rat(thr[1], thr[2]))
    /\ UNCHANGED <<state, fields, made, kept, batch>>

ClassifyEnergyPower ==
    /\ Callable
    /\ ret' = [call |-> "classify_energy_power", exc |-> "none",
               classification |-> classify_energy_power(signal, duration)]
    /\ UNCHANGED <<state, fields, made, kept, batch>>

\* SignalClassifier.get_classification_summary: an exception raised by
\* check_periodicity propagates and no summary is returned
get_classification_summary(x, rate, dur) ==
    LET r == check_periodicity(x, rate, DefaultThreshold)
    IN  IF r.exc # "none"
        THEN [exc |-> r.exc]
        ELSE [exc |-> "none",
              threshold |-> r.threshold,
              locals |-> r.locals,
              duration |-> dur,
              sampling_rate |-> rate,
              is_periodic |-> r.is_periodic,
              period |-> r.period,
              frequency |-> Frequency(r.period),
              energy |-> calculate_energy(x),
              power |-> calculate_power(x),
              classification |-> classify_energy_power(x, dur)]

GetClassificationSummary ==
    /\ Callable
    /\ ret' = [call |-> "get_classification_summary"]
              @@ get_classification_summary(signal, fs, duration)
    /\ UNCHANGED <<state, fields, made, kept, batch>>

ComputeFft ==
    /\ Callable
    /\ ret' = [call |-> "compute_fft"] @@ compute_fft(signal, fs)
    /\ UNCHANGED <<state, fields, made, kept, batch>>

PlotAnalysis(save_path) ==
    /\ Callable
    /\ ret' = [call |-> "plot_analysis"] @@ plot_analysis(signal, fs, name, save_path)
    /\ UNCHANGED <<state, fields, made, kept, batch>>

Next ==
    \/ \E s \in SampleSeqs, r \in SamplingRates, nm \in Names : Construct(s, r, nm)
    \/ \E in \in SineInputs \cup LoudInputs, nm \in Names : Construct(in[1], in[2], nm)
    \/ Consume
    \/ CalculateEnergy
    \/ CalculatePower
    \/ \E thr \in Thresholds : CheckPeriodicity(thr)
    \/ ClassifyEnergyPower
    \/ GetClassificationSummary
    \/ ComputeFft
    \/ \E save_path \in SavePaths : PlotAnalysis(save_path)

Spec == Init /\ [][Next]_vars

\* a caller that keeps the first summary and goes on calling the operations,
\* on signals of up to MaxRepeatLen samples
MaxRepeatLen == 5

NextRepeat ==
    \/ \E s \in SeqsUpTo(MaxRepeatLen), r \in SamplingRates, nm \in Names :
            Construct(s, r, nm)
    \/ Consume
    \/ KeepSummary
    \/ CalculateEnergy
    \/ CalculatePower
    \/ CheckPeriodicity(<<3, 10>>)
    \/ ClassifyEnergyPower
    \/ GetClassificationSummary
    \/ ComputeFft
    \/ \E save_path \in SavePaths : PlotAnalysis(save_path)

SpecRepeat == Init /\ [][NextRepeat]_vars

\* signals about as long as the spectrogram window, and the two shortest
PlotSpread == 3
PlotLens ==
    {0, 1} \cup ((MinSpectrogramLen - PlotSpread)..(MinSpectrogramLen + PlotSpread))
LongSignal(n) == [i \in 1..n |-> (i % 3) - 1]

NextPlot ==
    \/ \E n \in PlotLens, r \in SamplingRates, nm \in Names :
            Construct(LongSignal(n), r, nm)
    \/ Consume
    \/ ComputeFft
    \/ \E save_path \in SavePaths : PlotAnalysis(save_path)

SpecPlot == Init /\ [][NextPlot]_vars

\* ------------------------------------------- batch run (analyze_dataset.py)
\* An audio file is the directory it was found in, the stem of its name and
\* its extension.  batch holds the locals of analyze_all_dataset_files, what
\* it printed for each file (log) and what it left on disk.
MaxFiles == 3
Dirs == {"dataset", "dataset/sub"}
Stems == {"a", "b"}
Exts == {".wav", ".mp3"}
AudioFiles == [dir : Dirs, stem : Stems, ext : Exts]

Range(q) == {q[j] : j \in 1..Len(q)}

\* os.walk lists each file once: sequences of distinct files
RECURSIVE DistinctSeqs(_)
DistinctSeqs(k) ==
    IF k = 0 THEN {<<>>}
    ELSE LET shorter == DistinctSeqs(k - 1)
         IN  shorter \cup
             UNION {{Append(q, f) : f \in AudioFiles \ Range(q)} :
                        q \in {t \in shorter : Len(t) = k - 1}}

\* what pydub does with one MP3 file, and what loading, classifying and
\* plotting do with one WAV file
Conversions == {"converted", "ImportError", "CouldntDecodeError"}
Outcomes == {"ok", "load raises", "summary raises", "plot raises"}

\* mp3_file.replace('.mp3', '.wav')
WavOf(f) == [f EXCEPT !.ext = ".wav"]
\* os.path.basename(audio_file)
basename(f) == <<f.stem, f.ext>>
\* os.path.join(output_dir, f"{base_name}_analysis.png")
OutputFile(f) == <<"output", f.stem, "_analysis.png">>

\* mutant: a failed conversion still hands back the WAV path
convert_mp3_to_wav_path_anyway(f, exists, conv) ==
    IF conv = "ImportError"
    THEN [none |-> TRUE, wav |-> f, exists |-> exists]
    ELSE IF WavOf(f) \in exists
         THEN [none |-> FALSE, wav |-> WavOf(f), exists |-> exists]
    ELSE IF conv = "converted"
         THEN [none |-> FALSE, wav |-> WavOf(f), exists |-> exists \cup {WavOf(f)}]
         ELSE [none |-> FALSE, wav |-> WavOf(f), exists |-> exists]

\* convert_mp3_to_wav: None when pydub is missing or the conversion fails;
\* an existing WAV file is taken as it is
convert_mp3_to_wav(f, exists, conv) ==
    IF conv = "ImportError"
    THEN [none |-> TRUE, wav |-> f, exists |-> exists]
    ELSE IF WavOf(f) \in exists
         THEN [none |-> FALSE, wav |-> WavOf(f), exists |-> exists]
    ELSE IF conv = "converted"
         THEN [none |-> FALSE, wav |-> WavOf(f), exists |-> exists \cup {WavOf(f)}]
         ELSE [none |-> TRUE, wav |-> f, exists |-> exists]

\* mutant: the handler reports the error and raises it again
except_Exception_reraise(b, f) ==
    [b EXCEPT !.log = Append(@, [file |-> f, event |-> "error"]),
              !.pc = "aborted"]

\* except Exception as e: the error is printed, then continue
except_Exception(b, f) ==
    [b EXCEPT !.log = Append(@, [file |-> f, event |-> "error"]),
              !.i = @ + 1]

\* mutant: the result is recorded before the plot is made
analyze_wav_append_first(b, f, wav, outcome) ==
    IF outcome = "ok"
    THEN [b EXCEPT !.plots = @ \cup {OutputFile(wav)},
                   !.results = Append(@, basename(wav)),
                   !.successful = @ + 1,
                   !.log = Append(@, [file |-> f, event |-> "analyzed"]),
                   !.i = @ + 1]
    ELSE IF outcome = "plot raises"
         THEN except_Exception([b EXCEPT !.results = Append(@, basename(wav))], f)
         ELSE except_Exception(b, f)

\* the body of the try block for a WAV file: load, summarize, plot, record
analyze_wav(b, f, wav, outcome) ==
    IF outcome = "ok"
    THEN [b EXCEPT !.plots = @ \cup {OutputFile(wav)},
                   !.results = Append(@, basename(wav)),
                   !.successful = @ + 1,
                   !.log = Append(@, [file |-> f, event |-> "analyzed"]),
                   !.i = @ + 1]
    ELSE except_Exception(b, f)

\* one iteration of the loop over audio_files
iteration(b, conv, outcome) ==
    LET f == b.audio_files[b.i]
    IN  IF f.ext = ".mp3"
        THEN LET c == convert_mp3_to_wav(f, b.exists, conv)
             IN  IF c.none
                 THEN [b EXCEPT !.log = Append(@, [file |-> f, event |-> "skipped"]),
                                !.i = @ + 1]
                 ELSE analyze_wav([b EXCEPT !.exists = c.exists], f, c.wav, outcome)
        ELSE analyze_wav(b, f, f, outcome)

\* analyze_all_dataset_files up to the loop: discovery, the early return
\* when nothing was found, the output directory and the empty results
Discover(files) ==
    /\ batch = NoBatch
    /\ batch' = IF files = <<>>
                THEN [pc |-> "returned", audio_files |-> files, i |-> 1,
                      results |-> <<>>, successful |-> 0, log |-> <<>>,
                      exists |-> {}, output_dir |-> FALSE, plots |-> {},
                      summary_file |-> FALSE]
                ELSE [pc |-> "loop", audio_files |-> files, i |-> 1,
                      results |-> <<>>, successful |-> 0, log |-> <<>>,
                      exists |-> Range(files), output_dir |-> TRUE, plots |-> {},
                      summary_file |-> FALSE]
    /\ UNCHANGED <<state, fields, made, ret, kept>>

ProcessFile(conv, outcome) ==
    /\ batch.pc = "loop"
    /\ batch.i <= Len(batch.audio_files)
    /\ batch' = iteration(batch, conv, outcome)
    /\ UNCHANGED <<state, fields, made, ret, kept>>

\* mutant: the summary file is written after every loop
Report_always ==
    /\ batch.pc = "loop"
    /\ batch.i > Len(batch.audio_files)
    /\ batch' = [batch EXCEPT !.pc = "done", !.summary_file = TRUE]
    /\ UNCHANGED <<state, fields, made, ret, kept>>

\* after the loop: the counts are printed, and with at least one result the
\* table and the statistics are printed and written to the summary file
Report ==
    /\ batch.pc = "loop"
    /\ batch.i > Len(batch.audio_files)
    /\ batch' = [batch EXCEPT !.pc = "done", !.summary_file = (batch.results # <<>>)]
    /\ UNCHANGED <<state, fields, made, ret, kept>>

NextBatch ==
    \/ \E files \in DistinctSeqs(MaxFiles) : Discover(files)
    \/ \E conv \in Conversions, outcome \in Outcomes : ProcessFile(conv, outcome)
    \/ Report

SpecBatch == Init /\ [][NextBatch]_vars

\* the run is one sequential loop: the next iteration, or the report after
\* the last one, is taken once the step before it has ended
LoopStep == Report \/ \E conv \in Conversions, outcome \in Outcomes : ProcessFile(conv, outcome)

SpecBatchLive == SpecBatch /\ WF_vars(LoopStep)

\* ------------------------------------------------------------------ claims
Returned(calls) == ret.call \in calls /\ ret.exc = "none"
Detector == {"check_periodicity", "get_classification_summary"}

\* all samples equal: exactly the signals whose standard deviation is zero
IsConstant(x) == \A i, j \in 1..Len(x) : x[i] = x[j]

\* the normalized autocorrelation of the pending call, by lag 0..N-1
Ac(k) == ret.locals.autocorr[k + 1]
MaxLag == Len(ret.locals.autocorr) - 1

\* lag k is where the peak search reports a maximum of the lags 1..N-1: the
\* middle of a run l..r of equal values whose neighbours l-1 and r+1 are
\* both lags of the search range and strictly lower
IsPeakLag(k) ==
    \E l \in 2..k : \E r \in k..(MaxLag - 1) :
        /\ \A m \in l..r : RatEQ(Ac(m), Ac(l))
        /\ RatLT(Ac(l - 1), Ac(l))
        /\ RatLT(Ac(r + 1), Ac(r))
        /\ k = (l + r) \div 2

QualifyingLags == {k \in 1..MaxLag : IsPeakLag(k) /\ RatGE(Ac(k), ret.threshold)}

\* lags strictly greater than both neighbours and strictly above the threshold
StrictLags ==
    {k \in 1..(MaxLag - 1) :
        /\ RatGT(Ac(k), Ac(k - 1))
        /\ RatGT(Ac(k), Ac(k + 1))
        /\ RatGT(Ac(k), ret.threshold)}

MinOf(S) == CHOOSE k \in S : \A j \in S : k <= j

\* C1: for every signal of at least one sample whose standard deviation is
\* zero, check_periodicity and get_classification_summary return
\* is_periodic = false and period = None and raise nothing
C1_ConstantIsAperiodic ==
    (state = "live" /\ ret.call \in Detector /\ Len(signal) >= 1 /\ IsConstant(signal))
        => (ret.exc = "none" /\ ret.is_periodic = FALSE /\ ret.period = None)

C1_Witness ==
    /\ Returned({"get_classification_summary"})
    /\ fs > 0
    /\ Len(signal) >= 2
    /\ IsConstant(signal)
    /\ signal[1] # 0

\* C2: constructing a Signal with sampling_rate <= 0 fails with InvalidSignal,
\* so no Signal with a non-positive sampling rate or duration exists
C2_NonPositiveRateRejected ==
    /\ (ret.call = "__init__" /\ fs <= 0) => (state = "failed" /\ ret.exc = "InvalidSignal")
    /\ state = "live" => (fs > 0 /\ RatGT(duration, Num(0)))

\* C3: constructing a Signal from an empty sample sequence (with a valid
\* sampling rate) is rejected with InvalidSignal, and no live Signal is empty
C3_EmptyRejected ==
    /\ (ret.call = "__init__" /\ Len(signal) = 0 /\ fs > 0)
            => (state = "failed" /\ ret.exc = "InvalidSignal")
    /\ (state = "live" /\ fs > 0) => Len(signal) >= 1

\* C4: in every returned summary, period is present iff is_periodic,
\* frequency is present iff period is, and when present period > 0 and
\* frequency = 1/period > 0
C4_PeriodFrequency ==
    Returned({"get_classification_summary"}) =>
        /\ ret.period.present <=> ret.is_periodic
        /\ ret.frequency.present <=> ret.period.present
        /\ ret.period.present =>
              /\ RatGT(Val(ret.period), Num(0))
              /\ Val(ret.frequency) = RatDiv(Num(1), Val(ret.period))
              /\ RatGT(Val(ret.frequency), Num(0))

\* C5: when the detector declares a signal periodic, the reported period is
\* k / sampling_rate for the smallest lag k >= 1 among the qualifying peaks
\* of the autocorrelation, not a taller peak's lag and not off by one
C5_PeriodIsFirstPeakLag ==
    (Returned(Detector) /\ ret.is_periodic) =>
        /\ QualifyingLags # {}
        /\ ret.period = Some(Rat(MinOf(QualifyingLags), fs))

C5_Witness ==
    /\ Returned(Detector)
    /\ fs > 0
    /\ ret.is_periodic
    /\ \E k \in QualifyingLags :
          /\ k > MinOf(QualifyingLags)
          /\ RatGT(Ac(k), Ac(MinOf(QualifyingLags)))

\* C6 as stated: for a non-constant signal (of a positive sampling rate),
\* is_periodic iff some lag k >= 1
\* is strictly greater than both neighbouring lags and strictly above the
\* threshold (a value equal to the threshold or a flat plateau not counting)
C6_StrictPeakOnly ==
    (Returned(Detector) /\ fs > 0 /\ ~IsConstant(signal)) =>
        (ret.is_periodic <=> StrictLags # {})

\* C6 amended: for a non-constant signal, is_periodic iff some lag k with
\* 2 <= k <= N-2 is a maximum of the autocorrelation (strictly above lags
\* k-1 and k+1, or the middle of a flat run whose outer neighbours are both
\* strictly lower) whose height is at least the threshold
C6_PeakAtLeastThreshold ==
    (Returned(Detector) /\ ~IsConstant(signal)) =>
        (ret.is_periodic <=> QualifyingLags # {})

C6_Witness ==
    /\ Returned(Detector)
    /\ fs > 0
    /\ ~IsConstant(signal)
    /\ ret.is_periodic
    /\ StrictLags = {}
    /\ \E k \in QualifyingLags : RatGT(Ac(k), ret.threshold)

\* C7: classify_energy_power returns one of two labels: with
\* normalized_energy = energy / duration, power > 0 and finite gives
\* Energy Signal when normalized_energy < 1e6 and Power Signal when
\* normalized_energy >= 1e6; power zero or non-finite gives Energy Signal
C7_LabelRule ==
    Returned({"classify_energy_power", "get_classification_summary"}) =>
        LET energy == Num(SumAbsSq(signal))
            power == Rat(SumAbsSq(signal), Len(signal))
            normalized_energy == RatDiv(energy, duration)
            positive == RatGT(power, Num(0)) /\ IsFinite(power)
        IN  /\ ret.classification \in {"Energy Signal", "Power Signal"}
            /\ (positive /\ RatLT(normalized_energy, Num(1000000)))
                    => ret.classification = "Energy Signal"
            /\ (positive /\ RatGE(normalized_energy, Num(1000000)))
                    => ret.classification = "Power Signal"
            /\ ~positive => ret.classification = "Energy Signal"

C7_Witness ==
    /\ Returned({"classify_energy_power"})
    /\ ret.classification = "Power Signal"
    /\ RatDiv(Num(SumAbsSq(signal)), duration) = Num(1000000)

\* C8: for every signal (of a positive sampling rate), calculate_energy
\* returns the sum of the squared magnitudes, calculate_power their mean, and
\* both results are >= 0
C8_EnergyPowerNonNegative ==
    /\ (Returned({"calculate_energy"}) /\ fs > 0) =>
          (ret.energy = Num(SumAbsSq(signal)) /\ RatGE(ret.energy, Num(0)))
    /\ (Returned({"calculate_power"}) /\ fs > 0) =>
          (ret.power = Rat(SumAbsSq(signal), Len(signal)) /\ RatGE(ret.power, Num(0)))

\* C9: for every signal with at least one sample, the power and the energy
\* of one summary satisfy power * len(samples) = energy, whatever the
\* sampling rate and duration
C9_PowerTimesLenIsEnergy ==
    (Returned({"get_classification_summary"}) /\ Len(signal) >= 1) =>
        RatMul(ret.power, Num(Len(signal))) = ret.energy

C9_Witness ==
    /\ Returned({"get_classification_summary"})
    /\ Len(signal) >= 3
    /\ ret.power.d > 1
    /\ fs = 2

\* C10: for a non-constant signal the normalized autocorrelation is exactly
\* 1 at lag 0: the half kept starts at the zero-lag element of the full
\* autocorrelation (the sum of the squared standardized samples, len(samples))
\* and is divided by that element
C10_ZeroLagIsOne ==
    (Returned(Detector) /\ ~IsConstant(signal)) =>
        /\ Len(ret.locals.half) = Len(signal)
        /\ ret.locals.half[1] = ret.locals.full[Len(signal)]
        /\ ret.locals.half[1] = Num(Len(signal))
        /\ ret.locals.autocorr[1] = Num(1)

C10_Witness ==
    /\ Returned({"check_periodicity"})
    /\ fs > 0
    /\ ~IsConstant(signal)
    /\ Len(signal) >= 3
    /\ \E k \in 1..MaxLag : RatLT(Ac(k), Num(0))

\* C11: whatever operations were called in between, a call of
\* get_classification_summary has the same outcome, in every field, as the
\* first call on the same object had
C11_SummaryRepeatable ==
    (ret.call = "get_classification_summary" /\ kept # NoRet) => ret = kept

C11_Witness ==
    /\ Returned({"get_classification_summary"})
    /\ kept # NoRet
    /\ fs > 0
    /\ ret.is_periodic
    /\ ret.classification = "Power Signal"

\* C12: after any sequence of core operations on a live object, samples,
\* sampling_rate, name, duration and time_axis equal their values at
\* construction
C12_FieldsAsConstructed ==
    state = "live" =>
        /\ signal = made.signal
        /\ fs = made.fs
        /\ name = made.name
        /\ duration = made.duration
        /\ time = made.time

C12_Witness ==
    /\ state = "live"
    /\ ret.call = "plot_analysis"
    /\ ret.exc = "none"
    /\ ret.saved # NoPath
    /\ fs > 0
    /\ Len(signal) >= 2
    /\ ~IsConstant(signal)

\* C13: in a batch run an exception raised while loading, classifying or
\* plotting one file is reported and ends only that file's iteration: the
\* files are taken one after another in discovery order, each leaves one
\* line of the log, and every run that entered the loop reaches the final
\* report with all discovered files gone through
C13_FailureDoesNotAbort ==
    /\ [](batch.pc \in {"loop", "done", "aborted"} =>
            /\ batch.pc # "aborted"
            /\ Len(batch.log) = batch.i - 1
            /\ \A j \in 1..Len(batch.log) : batch.log[j].file = batch.audio_files[j]
            /\ batch.pc = "done" => Len(batch.log) = Len(batch.audio_files))
    /\ (batch.pc = "loop") ~> (batch.pc = "done")

C13_Witness ==
    /\ batch.pc = "done"
    /\ Len(batch.log) = 3
    /\ batch.log[1].event = "error"
    /\ batch.log[2].event = "analyzed"
    /\ batch.log[3].event = "error"
    /\ batch.summary_file

\* C14: when plot_analysis returns, the spectrogram was computed if and only
\* if the signal has more than 256 samples; for a signal of 256 samples or
\* fewer the panel holds the "Signal too short" text and no short-time
\* transform was taken
C14_SpectrogramIffLonger ==
    Returned({"plot_analysis"}) =>
        /\ ret.spectrogram.computed <=> Len(signal) > 256
        /\ Len(signal) <= 256 =>
              /\ ret.spectrogram.text = "Signal too short\nfor spectrogram"
              /\ ret.spectrogram.segments = 0
        /\ Len(signal) > 256 => ret.spectrogram.segments >= 1

C14_Witness ==
    /\ Returned({"plot_analysis"})
    /\ fs > 0
    /\ Len(signal) = 257
    /\ ret.spectrogram.computed
    /\ ret.spectrogram.segments = 1

\* C15 as stated: for a signal of a positive sampling rate, the spectrogram
\* is left out exactly when the signal has fewer than 256 samples, with the
\* spectrum and the power spectral density still computed
C15_FewerThanWindow ==
    (Returned({"plot_analysis"}) /\ fs > 0) =>
        /\ ~ret.spectrogram.computed <=> Len(signal) < 256
        /\ ~ret.spectrogram.computed => (ret.spectrum.computed /\ ret.psd.computed)

\* C15 amended: when plot_analysis returns, the spectrogram is left out
\* exactly when the signal has at most 256 samples, a full window of exactly
\* 256 included; the spectrum and the power spectral density (over one
\* segment no longer than the signal) are computed all the same
C15_AtMostWindow ==
    Returned({"plot_analysis"}) =>
        /\ ~ret.spectrogram.computed <=> Len(signal) <= 256
        /\ ~ret.spectrogram.computed =>
              /\ ret.spectrum.computed
              /\ ret.spectrum.bins >= 1
              /\ ret.psd.computed
              /\ ret.psd.nperseg = Len(signal)

C15_Witness ==
    /\ Returned({"plot_analysis"})
    /\ fs > 0
    /\ Len(signal) = 256
    /\ ~ret.spectrogram.computed
    /\ ret.psd.computed
    /\ ret.psd.bins = 129

BinFrequency(k, N, rate) == Rat((IF 2 * k < N THEN k ELSE k - N) * rate, N)

\* C17: compute_fft returns a frequency and a magnitude sequence of equal
\* length that hold exactly the DFT bins of frequency >= 0, each once: every
\* returned frequency is non-negative, the first is 0, and the magnitude at
\* an index is that of the bin whose frequency stands at the same index
C17_NonNegativeBins ==
    Returned({"compute_fft"}) =>
        LET N == Len(signal)
            f == ret.frequencies
            m == ret.magnitude
            bins == {k \in 0..(N - 1) : RatGE(BinFrequency(k, N, fs), Num(0))}
        IN  /\ Len(f) = Len(m)
            /\ Len(f) = Cardinality(bins)
            /\ f[1] = Num(0)
            /\ \A i \in 1..Len(f) :
                  /\ RatGE(f[i], Num(0))
                  /\ m[i].bin \in bins
                  /\ f[i] = BinFrequency(m[i].bin, N, fs)
            /\ \A i, j \in 1..Len(f) : m[i].bin = m[j].bin => i = j

C17_Witness ==
    /\ Returned({"compute_fft"})
    /\ fs = 2
    /\ Len(signal) = 6
    /\ Len(ret.frequencies) = 3
    /\ ret.frequencies[3] = Rat(2, 3)
    /\ ret.magnitude[3].bin = 2

\* the entries of a time axis are evenly spaced: each is the first plus a
\* multiple of the first step
EvenlySpaced(t) ==
    Len(t) >= 2 =>
        \A i \in 1..Len(t) :
            t[i] = RatAdd(t[1], RatMul(Num(i - 1), RatSub(t[2], t[1])))

\* C18 as stated: a constructed signal of at least one sample and a positive
\* rate has duration = len(samples) / sampling_rate and a time axis of
\* len(samples) evenly spaced entries, the first 0 and the last the duration
C18_TimeAxisEndsAtDuration ==
    (Returned({"__init__"}) /\ fs > 0 /\ Len(signal) >= 1) =>
        /\ duration = Rat(Len(signal), fs)
        /\ Len(time) = Len(signal)
        /\ EvenlySpaced(time)
        /\ time[1] = Num(0)
        /\ time[Len(time)] = duration

\* C18 amended: duration = len(samples) / sampling_rate and the time axis
\* has len(samples) evenly spaced entries; with two samples or more the
\* first is 0 and the last is the duration (so the step is
\* duration / (len(samples) - 1)), and the time axis of a single sample is
\* the one entry 0
C18_TimeAxis ==
    Returned({"__init__"}) =>
        /\ duration = Rat(Len(signal), fs)
        /\ Len(time) = Len(signal)
        /\ EvenlySpaced(time)
        /\ Len(signal) >= 1 => time[1] = Num(0)
        /\ Len(signal) >= 2 =>
              /\ time[Len(time)] = duration
              /\ RatSub(time[2], time[1]) = RatDiv(duration, Num(Len(signal) - 1))
        /\ Len(signal) = 1 => time = <<Num(0)>>

C18_Witness ==
    /\ Returned({"__init__"})
    /\ fs = 2
    /\ Len(signal) = 1
    /\ duration = Rat(1, 2)
    /\ time = <<Num(0)>>

C20_PeriodAtLeastTwoLags ==
    (Returned(Detector) /\ ret.period.present) =>
        LET lag == RatMul(Val(ret.period), Num(fs))
            slice == Tail(ret.locals.autocorr)
        IN  /\ RatGE(lag, Num(2))
            /\ RatLE(lag, Num(Len(signal) - 2))
            /\ \A j \in 1..Len(ret.locals.peaks) :
                  /\ ret.locals.peaks[j] >= 1
                  /\ ret.locals.peaks[j] <= Len(slice) - 2

C20_Witness ==
    /\ Returned({"check_periodicity"})
    /\ fs > 0
    /\ ret.period = Some(Rat(2, fs))
    /\ RatGT(Ac(MaxLag), Ac(MaxLag - 1))
    /\ RatGE(Ac(MaxLag), ret.threshold)
    /\ RatGT(Ac(MaxLag), Ac(2))

\* the files of the log whose analysis went through, in order
AnalyzedFiles(b) ==
    LET done == SelectSeq(b.log, LAMBDA e : e.event = "analyzed")
    IN  [k \in 1..Len(done) |-> done[k].file]

\* the MP3 file f is given up because convert_mp3_to_wav returns None
ConversionGivesNone(b, f, conv) ==
    f.ext = ".mp3" /\ convert_mp3_to_wav(f, b.exists, conv).none

\* C21: throughout a batch run successful equals the number of entries of
\* results and is at most the number of files gone through; results holds
\* one row, in order, for each file reported as analyzed; and whatever the
\* next file does, it adds a row (and one to successful) exactly when it was
\* not given up as an unconvertible MP3 and its load, its summary and its
\* plot all ended without exception
C21_SuccessfulCountsResults ==
    batch.pc \in {"loop", "done"} =>
        /\ batch.successful = Len(batch.results)
        /\ batch.successful <= batch.i - 1
        /\ batch.i - 1 <= Len(batch.audio_files)
        /\ LET files == AnalyzedFiles(batch)
           IN  batch.results = [k \in 1..Len(files) |-> basename(WavOf(files[k]))]
        /\ (batch.pc = "loop" /\ batch.i <= Len(batch.audio_files)) =>
              \A conv \in Conversions, outcome \in Outcomes :
                 LET f == batch.audio_files[batch.i]
                     after == iteration(batch, conv, outcome)
                     went_through == outcome = "ok" /\ ~ConversionGivesNone(batch, f, conv)
                 IN  /\ went_through =>
                           /\ Len(after.results) = Len(batch.results) + 1
                           /\ after.successful = batch.successful + 1
                     /\ ~went_through =>
                           /\ after.results = batch.results
                           /\ after.successful = batch.successful

C21_Witness ==
    /\ batch.pc = "done"
    /\ Len(batch.audio_files) = 3
    /\ batch.successful = 2
    /\ Len(batch.results) = 2
    /\ batch.log[1].event = "analyzed"
    /\ batch.log[2].event = "error"
    /\ batch.log[3].event = "analyzed"

\* C22 as stated: within a run no two iterations analyse the same WAV file
\* or write the same plot path, so the analysed files give pairwise distinct
\* rows of results and as many plot files as rows
C22_NoDuplicateAnalysis ==
    batch.pc \in {"loop", "done"} =>
        LET files == AnalyzedFiles(batch)
        IN  /\ \A j, k \in 1..Len(files) :
                  j # k =>
                     /\ WavOf(files[j]) # WavOf(files[k])
                     /\ OutputFile(WavOf(files[j])) # OutputFile(WavOf(files[k]))
                     /\ batch.results[j] # batch.results[k]
            /\ Cardinality(batch.plots) = Len(batch.results)

\* the iteration for the MP3 file f gives it up: nothing but the line of the
\* log and the loop index changes
SkipsFile(b, f, after) ==
    /\ after.results = b.results
    /\ after.successful = b.successful
    /\ after.plots = b.plots
    /\ after.exists = b.exists
    /\ after.log = Append(b.log, [file |-> f, event |-> "skipped"])
    /\ after.i = b.i + 1
    /\ after.pc = "loop"

\* convert_mp3_to_wav hands back the WAV file that was already there
ReturnsExisting(b, f, conv) ==
    LET c == convert_mp3_to_wav(f, b.exists, conv)
    IN  /\ ~c.none
        /\ c.wav = WavOf(f)
        /\ c.exists = b.exists

\* the cases C23 is about: the next file of the loop is an MP3
AtMp3 ==
    /\ batch.pc = "loop"
    /\ batch.i <= Len(batch.audio_files)
    /\ batch.audio_files[batch.i].ext = ".mp3"

\* C23 as stated: a missing library or a conversion error makes
\* convert_mp3_to_wav return None and the loop skip the file, and whenever
\* the target WAV exists its path is returned without a conversion
C23_ExistingWavReturned ==
    AtMp3 =>
        LET f == batch.audio_files[batch.i]
        IN  \A conv \in Conversions, outcome \in Outcomes :
               /\ (\/ conv = "ImportError"
                   \/ conv = "CouldntDecodeError" /\ WavOf(f) \notin batch.exists) =>
                      /\ convert_mp3_to_wav(f, batch.exists, conv).none
                      /\ SkipsFile(batch, f, iteration(batch, conv, outcome))
               /\ WavOf(f) \in batch.exists => ReturnsExisting(batch, f, conv)

\* C23 amended: a missing library makes convert_mp3_to_wav return None
\* whether or not the target WAV exists, and a conversion error makes it
\* return None when a conversion was needed; the loop then skips the file
\* (no load, no plot, no row, successful unchanged) and goes on; with the
\* library present an existing target WAV is returned without a conversion
C23_ExistingWavNeedsLibrary ==
    AtMp3 =>
        LET f == batch.audio_files[batch.i]
        IN  \A conv \in Conversions, outcome \in Outcomes :
               /\ (\/ conv = "ImportError"
                   \/ conv = "CouldntDecodeError" /\ WavOf(f) \notin batch.exists) =>
                      /\ convert_mp3_to_wav(f, batch.exists, conv).none
                      /\ SkipsFile(batch, f, iteration(batch, conv, outcome))
               /\ (WavOf(f) \in batch.exists /\ conv # "ImportError") =>
                      ReturnsExisting(batch, f, conv)

C23_Witness ==
    /\ batch.pc = "done"
    /\ Len(batch.audio_files) = 3
    /\ batch.audio_files[1].ext = ".mp3"
    /\ batch.audio_files[2].ext = ".mp3"
    /\ batch.audio_files[3] = WavOf(batch.audio_files[2])
    /\ batch.log[1].event = "skipped"
    /\ batch.log[2].event = "analyzed"
    /\ batch.exists = Range(batch.audio_files)
    /\ batch.results[1] = basename(batch.audio_files[3])

\* C24: a run that discovers no audio file returns at once: it never enters
\* the loop or the report, creates no output directory, converts nothing and
\* writes no plot and no summary file; a run that discovers files does not
\* take the early return; and in every run the summary file is written only
\* by the report after the loop and only with at least one file analysed
C24_NothingWrittenWithoutFiles ==
    batch # NoBatch =>
        /\ batch.audio_files = <<>> <=> batch.pc = "returned"
        /\ batch.pc = "returned" =>
              /\ ~batch.output_dir
              /\ batch.plots = {}
              /\ ~batch.summary_file
              /\ batch.exists = {}
              /\ batch.results = <<>>
              /\ batch.log = <<>>
              /\ ~ENABLED LoopStep
        /\ batch.summary_file =>
              /\ batch.pc = "done"
              /\ batch.output_dir
              /\ batch.successful >= 1
              /\ batch.results # <<>>
        /\ batch.plots # {} => (batch.output_dir /\ batch.successful >= 1)

C24_Witness ==
    /\ batch.pc = "returned"
    /\ batch.audio_files = <<>>
    /\ ~batch.output_dir
    /\ ~batch.summary_file
====
